---- MODULE Spec2Model ----
(***************************************************************************)
(* A model of boi.py: the Context (a stack of frames holding variables and *)
(* functions), the eval method of every AST node, and Program.run.         *)
(*                                                                         *)
(* Python's call stack of eval methods is the variable kont; ctl is the    *)
(* point the interpreter is at.  An exception unwinds the whole stack: the *)
(* language has no handler and no eval method has a try/finally.           *)
(***************************************************************************)
EXTENDS Integers, Sequences, FiniteSets, TLC

VARIABLES
    stack_frames,   \* Context.stack_frames
    argv,           \* Function.argv of every Function object, by object id
    statements,     \* Program.statements
    ip,             \* Program.run: index of the statement the loop is at
    pc,             \* what the host is doing: "run", "idle", "eval"
    ctl,            \* the evaluator's position
    kont,           \* the pending eval calls, innermost last
    expr,           \* the node whose eval the host called
    result,         \* how the host's last call ended
    errors,         \* how many host calls raised
    last_ret,       \* the last LetExpr/FunctionCall eval that returned
    last            \* SpecCtx: the last Context method called and its outcome

vars == <<stack_frames, argv, statements, ip, pc, ctl, kont, expr, result,
          errors, last_ret, last>>

(***************************************************************************)
(* Bounds.                                                                 *)
(***************************************************************************)
\* literal numbers the host writes are 0..MaxVal
MaxVal == 2
\* the host stops reusing a Context after this many of its calls raised
MaxErrors == 1
\* SpecCtx: the host pushes at most this many frames onto a Context
MaxFrames == 2

Vals == 0..MaxVal
Names == {"a", "b"}

(***************************************************************************)
(* AST nodes.  A float is modelled by an integer.                          *)
(***************************************************************************)
ADDITION == 0
SUBTRACTION == 1

GT == 0
GTE == 1
LT == 2
LTE == 3
EQ == 4
NEQ == 5

Value(v) == [tag |-> "Value", value |-> v]
Var(n) == [tag |-> "Var", name |-> n]
AdditiveExpr(l, o, r) ==
    [tag |-> "AdditiveExpr", lhs |-> l, operator |-> o, rhs |-> r]
ConditionExpr(c) == [tag |-> "ConditionExpr", expr |-> c]
ComparisonExpr(l, o, r) ==
    [tag |-> "ComparisonExpr", lhs |-> l, operator |-> o, rhs |-> r]
LetExpr(n, v, b) == [tag |-> "LetExpr", name |-> n, value |-> v, body |-> b]
FunctionCall(n, a) == [tag |-> "FunctionCall", name |-> n, argv |-> a]
IfExpr(c, t, f) ==
    [tag |-> "IfExpr", condition |-> c, true_expr |-> t, false_expr |-> f]
\* id stands for the identity of the Python object: argv[id] is its slot
Function(id, n, a, b, lam) ==
    [tag |-> "Function", id |-> id, name |-> n, args |-> a, body |-> b,
     is_lambda |-> lam]
LambdaExpr(id, n, a, v, b) ==
    [tag |-> "LambdaExpr", name |-> n, args |-> a, value |-> v, body |-> b,
     as_fn |-> Function(id, n, a, v, TRUE)]

ExprTags == {"Value", "Var", "AdditiveExpr", "ConditionExpr", "ComparisonExpr",
             "LambdaExpr", "LetExpr", "FunctionCall", "IfExpr"}

(***************************************************************************)
(* Context.  A frame is one Python dict; its string keys (variables) and   *)
(* its (name, argn) keys (functions) can never collide, so the dict is     *)
(* kept as two maps.                                                       *)
(***************************************************************************)
EmptyMap == [k \in {} |-> 0]
Put(f, k, v) == [x \in DOMAIN f \cup {k} |-> IF x = k THEN v ELSE f[x]]
Del(f, k) == [x \in DOMAIN f \ {k} |-> f[x]]

EmptyFrame == [vars |-> EmptyMap, fns |-> EmptyMap]
NoValue == [tag |-> "None"]

Ok(frames) == [err |-> "ok", frames |-> frames]
Fail(e, frames) == [err |-> e, frames |-> frames]
Found(v) == [err |-> "ok", value |-> v]
NotFound(e) == [err |-> e, value |-> NoValue]

ContextInit == <<EmptyFrame>>

\* push_stack_frame that appends nothing
push_stack_frame_none(frames) == frames

push_stack_frame(frames) == Append(frames, EmptyFrame)

\* pop_stack_frame that leaves the frame on the stack
pop_stack_frame_keep(frames) ==
    IF Len(frames) = 0 THEN Fail("IndexError", frames) ELSE Ok(frames)

\* pop_stack_frame that removes the frame under the popped one too
pop_stack_frame_two(frames) ==
    IF Len(frames) = 0 THEN Fail("IndexError", frames)
    ELSE Ok(SubSeq(frames, 1, Len(frames) - 2))

pop_stack_frame(frames) ==
    IF Len(frames) = 0 THEN Fail("IndexError", frames)
    ELSE Ok(SubSeq(frames, 1, Len(frames) - 1))

\* the assertion of current_stack_frame
HasFrame(frames) == Len(frames) > 0
current_stack_frame(frames) == frames[Len(frames)]

SetCurrent(frames, sf) == [frames EXCEPT ![Len(frames)] = sf]

\* push_var without its membership test
push_var_unchecked(frames, name, value) ==
    IF ~HasFrame(frames) THEN Fail("InternalInvariant", frames)
    ELSE LET sf == current_stack_frame(frames) IN
         Ok(SetCurrent(frames, [sf EXCEPT !.vars = Put(sf.vars, name, value)]))

push_var(frames, name, value) ==
    IF ~HasFrame(frames) THEN Fail("InternalInvariant", frames)
    ELSE LET sf == current_stack_frame(frames) IN
         IF name \in DOMAIN sf.vars
         THEN Fail("Shadowing", frames)
         ELSE Ok(SetCurrent(frames, [sf EXCEPT !.vars = Put(sf.vars, name, value)]))

\* pop_var that reads the binding and leaves it in the frame
pop_var_get(frames, name) ==
    IF ~HasFrame(frames) THEN Fail("InternalInvariant", frames)
    ELSE LET sf == current_stack_frame(frames) IN
         IF name \in DOMAIN sf.vars THEN Ok(frames)
         ELSE Fail("UnbindMissing", frames)

pop_var(frames, name) ==
    IF ~HasFrame(frames) THEN Fail("InternalInvariant", frames)
    ELSE LET sf == current_stack_frame(frames) IN
         IF name \in DOMAIN sf.vars
         THEN Ok(SetCurrent(frames, [sf EXCEPT !.vars = Del(sf.vars, name)]))
         ELSE Fail("UnbindMissing", frames)

\* the key of a function taken to have one parameter
FnKey_unary(fn) == <<fn.name, 1>>

\* (fn.name.name, argn) with argn = len(fn.args)
FnKey(fn) == <<fn.name, Len(fn.args)>>

push_function(frames, fn) ==
    IF ~HasFrame(frames) THEN Fail("InternalInvariant", frames)
    ELSE LET sf == current_stack_frame(frames) IN
         IF FnKey(fn) \in DOMAIN sf.fns
         THEN Fail("Shadowing", frames)
         ELSE Ok(SetCurrent(frames, [sf EXCEPT !.fns = Put(sf.fns, FnKey(fn), fn)]))

\* pop_function that finds the key and leaves it in the frame
pop_function_keep(frames, fn) ==
    IF ~HasFrame(frames) THEN Fail("InternalInvariant", frames)
    ELSE LET sf == current_stack_frame(frames) IN
         IF FnKey(fn) \in DOMAIN sf.fns THEN Ok(frames)
         ELSE Fail("UnbindMissing", frames)

pop_function(frames, fn) ==
    IF ~HasFrame(frames) THEN Fail("InternalInvariant", frames)
    ELSE LET sf == current_stack_frame(frames) IN
         IF FnKey(fn) \in DOMAIN sf.fns
         THEN Ok(SetCurrent(frames, [sf EXCEPT !.fns = Del(sf.fns, FnKey(fn))]))
         ELSE Fail("UnbindMissing", frames)

\* None is <<>>, a frame sf is <<sf>>.  Python's stack_frames[offset] with a
\* negative offset counts from the end.
\* get_stack_frame with <= for <: the base frame is never returned
get_stack_frame_short(frames, offset) ==
    IF Len(frames) <= -offset THEN <<>>
    ELSE IF offset = 0 THEN <<frames[1]>>
    ELSE <<frames[Len(frames) + offset + 1]>>

get_stack_frame(frames, offset) ==
    IF Len(frames) < -offset THEN <<>>
    ELSE IF offset = 0 THEN <<frames[1]>>
    ELSE <<frames[Len(frames) + offset + 1]>>

RECURSIVE get_function_loop(_, _, _, _)
get_function_loop(frames, key, sf, offset) ==
    IF sf = <<>> THEN NotFound("UndefinedFunction")
    ELSE IF key \in DOMAIN sf[1].fns THEN Found(sf[1].fns[key])
    ELSE get_function_loop(frames, key, get_stack_frame(frames, offset), offset - 1)

\* get_function that matches the name and not the arity
get_function_by_name(frames, name, argn) ==
    IF ~HasFrame(frames) THEN NotFound("InternalInvariant")
    ELSE LET has(i) == \E k \in DOMAIN frames[i].fns : k[1] = name
             hits == {i \in 1..Len(frames) : has(i)}
         IN  IF hits = {} THEN NotFound("UndefinedFunction")
             ELSE LET i == CHOOSE i \in hits : \A j \in hits : j <= i
                      k == CHOOSE k \in DOMAIN frames[i].fns : k[1] = name
                  IN  Found(frames[i].fns[k])

get_function(frames, name, argn) ==
    IF ~HasFrame(frames) THEN NotFound("InternalInvariant")
    ELSE get_function_loop(frames, <<name, argn>>,
                           <<current_stack_frame(frames)>>, -1)

RECURSIVE get_var_loop(_, _, _, _)
get_var_loop(frames, name, sf, offset) ==
    IF sf = <<>> THEN NotFound("UnboundVariable")
    ELSE IF name \in DOMAIN sf[1].vars THEN Found(sf[1].vars[name])
    ELSE get_var_loop(frames, name, get_stack_frame(frames, offset), offset - 1)

get_var(frames, name) ==
    IF ~HasFrame(frames) THEN NotFound("InternalInvariant")
    ELSE get_var_loop(frames, name, <<current_stack_frame(frames)>>, -1)

\* zip pairing each name with the value at the mirrored position
zip_mirrored(args, values) ==
    [i \in 1..Len(args) |-> <<args[i], values[Len(values) + 1 - i]>>]

\* Python's zip, of two lists of one length
zip(args, values) == [i \in 1..Len(args) |-> <<args[i], values[i]>>]

RECURSIVE push_each(_, _)
push_each(frames, pairs) ==
    IF pairs = <<>> THEN Ok(frames)
    ELSE LET r == push_var(frames, Head(pairs)[1], Head(pairs)[2]) IN
         IF r.err # "ok" THEN r
         ELSE push_each(r.frames, Tail(pairs))

push_args(frames, args, values) ==
    IF Len(args) # Len(values) THEN Fail("InternalInvariant", frames)
    ELSE push_each(frames, zip(args, values))

RECURSIVE pop_each(_, _)
pop_each(frames, args) ==
    IF args = <<>> THEN Ok(frames)
    ELSE LET r == pop_var(frames, Head(args)) IN
         IF r.err # "ok" THEN r
         ELSE pop_each(r.frames, Tail(args))

\* pop_args that unbinds the first parameter only
pop_args_first(frames, args) ==
    IF args = <<>> THEN Ok(frames) ELSE pop_var(frames, Head(args))

pop_args(frames, args) == pop_each(frames, args)


(***************************************************************************)
(* Value's operators and the tables of the expression nodes.               *)
(***************************************************************************)
\* Value.__add__
value_add(l, r) == l + r
\* Value.__sub__
value_sub(l, r) == l - r

\* AdditiveExpr.eval computes lhs_value + rhs_value whatever self.operator is
additive_new_value(operator, l, r) == value_add(l, r)

\* COMPARISON_FNS whose GTE and LTE are the strict comparisons
COMPARISON_FNS_strict(operator, l, r) ==
    CASE operator = GT -> l > r
      [] operator = GTE -> l > r
      [] operator = LT -> l < r
      [] operator = LTE -> l < r
      [] operator = EQ -> l = r
      [] operator = NEQ -> l # r

\* ComparisonExpr.COMPARISON_FNS
COMPARISON_FNS(operator, l, r) ==
    CASE operator = GT -> l > r
      [] operator = GTE -> l >= r
      [] operator = LT -> l < r
      [] operator = LTE -> l <= r
      [] operator = EQ -> l = r
      [] operator = NEQ -> l # r

\* ConditionExpr.FALSE_VALUES: of 0.0, "" and [] a Value's number can only be 0.0
FALSE_VALUES == {0}

(***************************************************************************)
(* The evaluator's position.                                               *)
(***************************************************************************)
Idle == [op |-> "none"]
Eval(node) == [op |-> "eval", node |-> node]
Ret(v) == [op |-> "ret", val |-> v]

Top == kont[Len(kont)]
Pop(k) == SubSeq(k, 1, Len(k) - 1)
Push(k, f) == Append(k, f)

NoResult == [kind |-> "none"]
NoRet == [kind |-> "none"]

\* An exception leaves every pending eval: nothing catches it before the host.
\* The traceback is the stack it left.
Raise(e, node) ==
    /\ pc' = "idle"
    /\ ctl' = Idle
    /\ kont' = <<>>
    /\ result' = [kind |-> "error", err |-> e, node |-> node, traceback |-> kont]
    /\ errors' = errors + 1

Evaluating(tag) == pc = "eval" /\ ctl.op = "eval" /\ ctl.node.tag = tag
Returning(k) == pc = "eval" /\ ctl.op = "ret" /\ kont # <<>> /\ Top.k = k

(***************************************************************************)
(* Value.eval, Var.eval                                                    *)
(***************************************************************************)
Value_eval ==
    /\ Evaluating("Value")
    /\ ctl' = Ret(ctl.node.value)
    /\ UNCHANGED <<stack_frames, argv, statements, ip, pc, kont, expr, result,
                   errors, last_ret, last>>

Var_eval ==
    /\ Evaluating("Var")
    /\ LET r == get_var(stack_frames, ctl.node.name) IN
       IF r.err # "ok"
       THEN Raise(r.err, ctl.node)
       ELSE /\ ctl' = Ret(r.value)
            /\ UNCHANGED <<pc, kont, result, errors>>
    /\ UNCHANGED <<stack_frames, argv, statements, ip, expr, last_ret, last>>

(***************************************************************************)
(* AdditiveExpr.eval                                                       *)
(***************************************************************************)
AdditiveExpr_eval ==
    /\ Evaluating("AdditiveExpr")
    /\ kont' = Push(kont, [k |-> "AddL", node |-> ctl.node])
    /\ ctl' = Eval(ctl.node.lhs)
    /\ UNCHANGED <<stack_frames, argv, statements, ip, pc, expr, result,
                   errors, last_ret, last>>

AdditiveExpr_rhs ==
    /\ Returning("AddL")
    /\ kont' = Push(Pop(kont), [k |-> "AddR", node |-> Top.node,
                                lhs_value |-> ctl.val])
    /\ ctl' = Eval(Top.node.rhs)
    /\ UNCHANGED <<stack_frames, argv, statements, ip, pc, expr, result,
                   errors, last_ret, last>>

AdditiveExpr_ret ==
    /\ Returning("AddR")
    /\ kont' = Pop(kont)
    /\ ctl' = Ret(additive_new_value(Top.node.operator, Top.lhs_value, ctl.val))
    /\ UNCHANGED <<stack_frames, argv, statements, ip, pc, expr, result,
                   errors, last_ret, last>>

(***************************************************************************)
(* ComparisonExpr.eval, ConditionExpr.eval, IfExpr.eval                    *)
(***************************************************************************)
ComparisonExpr_eval ==
    /\ Evaluating("ComparisonExpr")
    /\ kont' = Push(kont, [k |-> "CmpL", node |-> ctl.node])
    /\ ctl' = Eval(ctl.node.lhs)
    /\ UNCHANGED <<stack_frames, argv, statements, ip, pc, expr, result,
                   errors, last_ret, last>>

ComparisonExpr_rhs ==
    /\ Returning("CmpL")
    /\ kont' = Push(Pop(kont), [k |-> "CmpR", node |-> Top.node,
                                lhs_value |-> ctl.val])
    /\ ctl' = Eval(Top.node.rhs)
    /\ UNCHANGED <<stack_frames, argv, statements, ip, pc, expr, result,
                   errors, last_ret, last>>

ComparisonExpr_ret ==
    /\ Returning("CmpR")
    /\ kont' = Pop(kont)
    /\ ctl' = Ret(COMPARISON_FNS(Top.node.operator, Top.lhs_value, ctl.val))
    /\ UNCHANGED <<stack_frames, argv, statements, ip, pc, expr, result,
                   errors, last_ret, last>>

ConditionExpr_eval ==
    /\ Evaluating("ConditionExpr")
    /\ kont' = Push(kont, [k |-> "Cond", node |-> ctl.node])
    /\ ctl' = Eval(ctl.node.expr)
    /\ UNCHANGED <<stack_frames, argv, statements, ip, pc, expr, result,
                   errors, last_ret, last>>

ConditionExpr_ret ==
    /\ Returning("Cond")
    /\ kont' = Pop(kont)
    /\ ctl' = Ret(ctl.val \notin FALSE_VALUES)
    /\ UNCHANGED <<stack_frames, argv, statements, ip, pc, expr, result,
                   errors, last_ret, last>>

IfExpr_eval ==
    /\ Evaluating("IfExpr")
    /\ kont' = Push(kont, [k |-> "If", node |-> ctl.node])
    /\ ctl' = Eval(ctl.node.condition)
    /\ UNCHANGED <<stack_frames, argv, statements, ip, pc, expr, result,
                   errors, last_ret, last>>

\* IfExpr.eval that evaluates true_expr whatever the condition gave
IfExpr_branch_true ==
    /\ Returning("If")
    /\ kont' = Push(Pop(kont), [k |-> "IfBranch", node |-> Top.node,
                                condition |-> ctl.val])
    /\ ctl' = Eval(Top.node.true_expr)
    /\ UNCHANGED <<stack_frames, argv, statements, ip, pc, expr, result,
                   errors, last_ret, last>>

\* the condition's value arrives: IfExpr.eval calls the eval of one branch
IfExpr_branch ==
    /\ Returning("If")
    /\ kont' = Push(Pop(kont), [k |-> "IfBranch", node |-> Top.node,
                                condition |-> ctl.val])
    /\ ctl' = Eval(IF ctl.val THEN Top.node.true_expr ELSE Top.node.false_expr)
    /\ UNCHANGED <<stack_frames, argv, statements, ip, pc, expr, result,
                   errors, last_ret, last>>

\* the branch's result is returned as it is
IfExpr_ret ==
    /\ Returning("IfBranch")
    /\ kont' = Pop(kont)
    /\ ctl' = Ret(ctl.val)
    /\ UNCHANGED <<stack_frames, argv, statements, ip, pc, expr, result,
                   errors, last_ret, last>>


(***************************************************************************)
(* LambdaExpr.eval, LetExpr.eval.  saved is the Context on entry: the      *)
(* model's record of it, to compare with the Context on return; bound is   *)
(* what the returning eval bound (a let's value, a call's arguments).      *)
(***************************************************************************)
Returned(node, saved, frames, v, bound) ==
    [kind |-> node.tag, node |-> node, before |-> saved, after |-> frames,
     value |-> v, bound |-> bound]

LambdaExpr_eval ==
    /\ Evaluating("LambdaExpr")
    /\ LET r == push_function(stack_frames, ctl.node.as_fn) IN
       IF r.err # "ok"
       THEN /\ Raise(r.err, ctl.node)
            /\ UNCHANGED stack_frames
       ELSE /\ stack_frames' = r.frames
            /\ kont' = Push(kont, [k |-> "Lambda", node |-> ctl.node,
                                   saved |-> stack_frames])
            /\ ctl' = Eval(ctl.node.body)
            /\ UNCHANGED <<pc, result, errors>>
    /\ UNCHANGED <<argv, statements, ip, expr, last_ret, last>>

LambdaExpr_ret ==
    /\ Returning("Lambda")
    /\ LET r == pop_function(stack_frames, Top.node.as_fn) IN
       IF r.err # "ok"
       THEN /\ Raise(r.err, Top.node)
            /\ UNCHANGED <<stack_frames, last_ret>>
       ELSE /\ stack_frames' = r.frames
            /\ kont' = Pop(kont)
            /\ ctl' = Ret(ctl.val)
            /\ last_ret' = Returned(Top.node, Top.saved, r.frames, ctl.val, <<>>)
            /\ UNCHANGED <<pc, result, errors>>
    /\ UNCHANGED <<argv, statements, ip, expr, last>>

LetExpr_eval ==
    /\ Evaluating("LetExpr")
    /\ kont' = Push(kont, [k |-> "LetVal", node |-> ctl.node,
                           saved |-> stack_frames])
    /\ ctl' = Eval(ctl.node.value)
    /\ UNCHANGED <<stack_frames, argv, statements, ip, pc, expr, result,
                   errors, last_ret, last>>

\* depth: the frame the name is bound in
LetExpr_bind ==
    /\ Returning("LetVal")
    /\ LET r == push_var(stack_frames, Top.node.name, ctl.val) IN
       IF r.err # "ok"
       THEN /\ Raise(r.err, Top.node)
            /\ UNCHANGED stack_frames
       ELSE /\ stack_frames' = r.frames
            /\ kont' = Push(Pop(kont), [k |-> "LetBody", node |-> Top.node,
                                        saved |-> Top.saved, val |-> ctl.val,
                                        depth |-> Len(stack_frames)])
            /\ ctl' = Eval(Top.node.body)
            /\ UNCHANGED <<pc, result, errors>>
    /\ UNCHANGED <<argv, statements, ip, expr, last_ret, last>>

LetExpr_ret ==
    /\ Returning("LetBody")
    /\ LET r == pop_var(stack_frames, Top.node.name) IN
       IF r.err # "ok"
       THEN /\ Raise(r.err, Top.node)
            /\ UNCHANGED <<stack_frames, last_ret>>
       ELSE /\ stack_frames' = r.frames
            /\ kont' = Pop(kont)
            /\ ctl' = Ret(ctl.val)
            /\ last_ret' = Returned(Top.node, Top.saved, r.frames, ctl.val,
                                     <<Top.val>>)
            /\ UNCHANGED <<pc, result, errors>>
    /\ UNCHANGED <<argv, statements, ip, expr, last>>

(***************************************************************************)
(* FunctionCall.eval, Function.set_args, Function.eval.  The pending       *)
(* FunctionCall.eval holds its locals fn and argv.  A pending Function.eval *)
(* is marked rearmed once set_args has been called on its Function again:  *)
(* the model's record that self.argv is no longer what this eval was       *)
(* entered with.                                                           *)
(***************************************************************************)
None == <<>>
Some(x) == <<x>>

FunctionCall_eval ==
    /\ Evaluating("FunctionCall")
    /\ LET r == get_function(stack_frames, ctl.node.name, Len(ctl.node.argv)) IN
       IF r.err # "ok"
       THEN Raise(r.err, ctl.node)
       ELSE /\ kont' = Push(kont, [k |-> "Call", node |-> ctl.node,
                                   fn |-> r.value, argv |-> <<>>,
                                   saved |-> stack_frames])
            /\ ctl' = IF ctl.node.argv = <<>> THEN [op |-> "set_args"]
                      ELSE Eval(ctl.node.argv[1])
            /\ UNCHANGED <<pc, result, errors>>
    /\ UNCHANGED <<stack_frames, argv, statements, ip, expr, last_ret, last>>

\* one step of the map over self.argv: the next argument's value arrives
FunctionCall_arg ==
    /\ Returning("Call")
    /\ LET got == Append(Top.argv, ctl.val) IN
       /\ kont' = Push(Pop(kont), [Top EXCEPT !.argv = got])
       /\ ctl' = IF Len(got) = Len(Top.node.argv) THEN [op |-> "set_args"]
                 ELSE Eval(Top.node.argv[Len(got) + 1])
    /\ UNCHANGED <<stack_frames, argv, statements, ip, pc, expr, result,
                   errors, last_ret, last>>

\* set_args that checks the count and stores nothing
set_args_unarmed(slots, fn, values) ==
    IF Len(values) # Len(fn.args) THEN [err |-> "ArityMismatch", argv |-> slots]
    ELSE [err |-> "ok", argv |-> slots]

set_args(slots, fn, values) ==
    IF Len(values) # Len(fn.args) THEN [err |-> "ArityMismatch", argv |-> slots]
    ELSE [err |-> "ok", argv |-> [slots EXCEPT ![fn.id] = Some(values)]]

FunctionCall_set_args ==
    /\ pc = "eval" /\ ctl.op = "set_args"
    /\ LET r == set_args(argv, Top.fn, Top.argv) IN
       IF r.err # "ok"
       THEN /\ Raise(r.err, Top.node)
            /\ UNCHANGED argv
       ELSE /\ argv' = r.argv
            /\ ctl' = [op |-> "fn_eval"]
            /\ kont' = [i \in 1..Len(kont) |->
                          IF kont[i].k = "Function" /\ kont[i].fn.id = Top.fn.id
                          THEN [kont[i] EXCEPT !.rearmed = TRUE]
                          ELSE kont[i]]
            /\ UNCHANGED <<pc, result, errors>>
    /\ UNCHANGED <<stack_frames, statements, ip, expr, last_ret, last>>

\* Function.eval that takes back its frame and bindings when push_args fails
Function_eval_unwinding ==
    /\ pc = "eval" /\ ctl.op = "fn_eval"
    /\ LET fn == Top.fn IN
       IF argv[fn.id] = None
       THEN /\ Raise("InternalInvariant", fn)
            /\ UNCHANGED stack_frames
       ELSE LET entered == IF fn.is_lambda THEN stack_frames
                           ELSE push_stack_frame(stack_frames)
                r == push_args(entered, fn.args, argv[fn.id][1])
            IN  IF r.err # "ok"
                THEN /\ Raise(r.err, fn)
                     /\ UNCHANGED stack_frames
                ELSE /\ stack_frames' = r.frames
                     /\ kont' = Push(kont, [k |-> "Function", fn |-> fn,
                                             depth |-> Len(entered),
                                             rearmed |-> FALSE])
                     /\ ctl' = Eval(fn.body)
                     /\ UNCHANGED <<pc, result, errors>>
    /\ UNCHANGED <<argv, statements, ip, expr, last_ret, last>>

\* Function.eval up to the evaluation of the body; depth is the frame the
\* parameters are bound in
Function_eval ==
    /\ pc = "eval" /\ ctl.op = "fn_eval"
    /\ LET fn == Top.fn IN
       IF argv[fn.id] = None
       THEN /\ Raise("InternalInvariant", fn)
            /\ UNCHANGED stack_frames
       ELSE LET entered == IF fn.is_lambda THEN stack_frames
                           ELSE push_stack_frame(stack_frames)
                r == push_args(entered, fn.args, argv[fn.id][1])
            IN  /\ stack_frames' = r.frames
                /\ IF r.err # "ok"
                   THEN Raise(r.err, fn)
                   ELSE /\ kont' = Push(kont, [k |-> "Function", fn |-> fn,
                                                depth |-> Len(entered),
                                                rearmed |-> FALSE])
                        /\ ctl' = Eval(fn.body)
                        /\ UNCHANGED <<pc, result, errors>>
    /\ UNCHANGED <<argv, statements, ip, expr, last_ret, last>>

\* Function.eval after the body, and the return of FunctionCall.eval with it
Function_ret ==
    /\ Returning("Function")
    /\ LET fn == Top.fn
           call == kont[Len(kont) - 1]
           r == pop_args(stack_frames, fn.args)
           p == IF fn.is_lambda THEN r ELSE pop_stack_frame(r.frames)
       IN  /\ argv' = [argv EXCEPT ![fn.id] = None]
           /\ IF r.err # "ok"
              THEN /\ Raise(r.err, fn)
                   /\ stack_frames' = r.frames
                   /\ UNCHANGED last_ret
              ELSE /\ stack_frames' = p.frames
                   /\ kont' = Pop(Pop(kont))
                   /\ ctl' = Ret(ctl.val)
                   /\ last_ret' = Returned(call.node, call.saved, p.frames, ctl.val,
                                            call.argv)
                   /\ UNCHANGED <<pc, result, errors>>
    /\ UNCHANGED <<statements, ip, expr, last>>


(***************************************************************************)
(* The functions and expressions the host builds.                          *)
(***************************************************************************)
a == Var("a")
b == Var("b")
a_plus_b == AdditiveExpr(a, ADDITION, b)

\* test_simple_function's sum, and a second Function object of the same key
fn_sum == Function(1, "sum", <<a.name, b.name>>, a_plus_b, FALSE)
fn_sum_again == Function(2, "sum", <<a.name, b.name>>, a, FALSE)
\* the same name with another arity
fn_sum1 == Function(3, "sum", <<a.name>>, a, FALSE)
fn_fst == Function(4, "fst", <<a.name, b.name>>, a, FALSE)
fn_snd == Function(5, "snd", <<a.name, b.name>>, b, FALSE)
\* tri(a) = if a then tri(a + -1) + a else 0: recursion through one object,
\* with the parameter read after the nested call has returned
fn_tri ==
    Function(6, "tri", <<a.name>>,
             IfExpr(ConditionExpr(a),
                    AdditiveExpr(FunctionCall("tri",
                                     <<AdditiveExpr(a, ADDITION, Value(-1))>>),
                                 ADDITION, a),
                    Value(0)),
             FALSE)
\* dyn() = b: reads a variable of whoever calls it
fn_dyn == Function(7, "dyn", <<>>, b, FALSE)
\* dup(a, a) = a: one parameter name twice
fn_dup == Function(8, "dup", <<a.name, a.name>>, a, FALSE)
\* app(b) = lam(b): calls a function its caller has to provide
fn_app == Function(9, "app", <<b.name>>, FunctionCall("lam", <<b>>), FALSE)
\* enc(a) = (let lam(a) = a in lam(a)): calls a lambda of parameter a where
\* its own parameter a is bound
lam_enc == LambdaExpr(500, "lam", <<a.name>>, a, FunctionCall("lam", <<a>>))
fn_enc == Function(10, "enc", <<a.name>>, lam_enc, FALSE)
\* bad(a) = if a then bad(a + -1) + b else 0: recursion that reads a variable
\* of whoever calls it after the nested call has returned
fn_bad ==
    Function(11, "bad", <<a.name>>,
             IfExpr(ConditionExpr(a),
                    AdditiveExpr(FunctionCall("bad",
                                     <<AdditiveExpr(a, ADDITION, Value(-1))>>),
                                 ADDITION, b),
                    Value(0)),
             FALSE)

Library ==
    <<fn_sum, fn_fst, fn_snd, fn_tri, fn_dyn, fn_dup, fn_app, fn_enc, fn_bad>>

\* what a Program is built from besides Functions: an expression, an instance
\* of the base class Expr itself, and an object that is no AST at all
ExprBase == [tag |-> "Expr"]
NotAnAST == [tag |-> "str"]

Programs ==
    { <<>>,
      Library,
      <<fn_sum, fn_sum1>>,
      <<fn_sum, fn_sum1, fn_sum_again, fn_fst>>,
      <<fn_sum, LetExpr("a", Value(1), a), fn_fst>>,
      <<fn_sum, FunctionCall("sum", <<Value(1), Value(2)>>), fn_fst>>,
      <<fn_sum, ExprBase, fn_fst>>,
      <<fn_sum, NotAnAST, fn_fst>> }

\* every lambda is its own Function object: its id is id0 + i
Lam2(i, body, x, y) ==
    LambdaExpr(100 + i, "lam", <<a.name, b.name>>, body,
               FunctionCall("lam", <<Value(x), Value(y)>>))
Lam1(i, x) ==
    LambdaExpr(200 + i, "lam", <<a.name>>, a, FunctionCall("lam", <<Value(x)>>))
LamRec(i, x) ==
    LambdaExpr(300 + i, "rec", <<a.name>>,
               IfExpr(ConditionExpr(a),
                      FunctionCall("rec", <<AdditiveExpr(a, ADDITION, Value(-1))>>),
                      Value(0)),
               FunctionCall("rec", <<Value(x)>>))
LamApp(i, x) ==
    LambdaExpr(400 + i, "lam", <<a.name>>, a, FunctionCall("app", <<Value(x)>>))

Pair(x, y) == x * (MaxVal + 1) + y

Lambdas ==
    {Lam2(Pair(x, y), a_plus_b, x, y) : x \in Vals, y \in Vals}
    \cup {Lam2(50 + x, a, x, MaxVal - x) : x \in Vals}
    \cup {Lam2(70 + x, b, x, MaxVal - x) : x \in Vals}
    \cup {LamRec(x, x) : x \in Vals}
    \cup {LamApp(x, x) : x \in Vals}

\* a lambda called where its parameter is already bound, and a function
\* with that parameter called there
Collisions ==
    {LetExpr("a", Value(x), Lam1(x, MaxVal - x)) : x \in Vals}
    \cup {LetExpr("a", Value(x), FunctionCall("fst", <<Value(MaxVal - x), Value(x)>>)) :
            x \in Vals}

Arithmetic ==
    {Value(x) : x \in Vals}
    \cup {Var(n) : n \in Names}
    \cup {AdditiveExpr(Value(x), o, Value(y)) :
            x \in Vals, y \in Vals, o \in {ADDITION, SUBTRACTION}}

Comparisons ==
    {ComparisonExpr(Value(x), o, Value(y)) : x \in Vals, y \in Vals, o \in GT..NEQ}
    \cup {ConditionExpr(Value(x)) : x \in Vals}
    \cup {LetExpr("a", Value(x), ComparisonExpr(a, o, Value(1))) :
            x \in Vals, o \in GT..NEQ}

Conditionals ==
    {IfExpr(ConditionExpr(Value(x)), Value(1), b) : x \in Vals}
    \cup {IfExpr(ConditionExpr(Value(x)), b, Value(1)) : x \in Vals}
    \cup {IfExpr(ComparisonExpr(Value(x), LT, Value(y)), Value(x), Value(y)) :
            x \in Vals, y \in Vals}
    \cup {IfExpr(ConditionExpr(Value(x)), Value(x),
                 FunctionCall("dup", <<Value(1), Value(2)>>)) : x \in Vals}

Lets ==
    {LetExpr(n, Value(x), Var(m)) : n \in Names, m \in Names, x \in Vals}
    \cup {LetExpr("a", LetExpr("a", Value(x), a), a) : x \in Vals}
    \cup {LetExpr("a", Value(x), LetExpr("a", Value(MaxVal - x), a)) : x \in Vals}
    \cup {LetExpr("a", Value(x), LetExpr("b", Value(y), a_plus_b)) :
            x \in Vals, y \in Vals}

Calls ==
    {FunctionCall(f, <<Value(x), Value(y)>>) :
        f \in {"sum", "fst", "snd"}, x \in Vals, y \in Vals}
    \cup {FunctionCall("dup", <<Value(x), Value(MaxVal - x)>>) : x \in Vals}
    \cup {FunctionCall("sum", <<Value(x)>>) : x \in Vals}
    \cup {FunctionCall("tri", <<Value(x)>>) : x \in Vals}
    \cup {FunctionCall("enc", <<Value(x)>>) : x \in Vals}
    \cup {FunctionCall("bad", <<Value(x)>>) : x \in Vals}
    \cup {FunctionCall("dyn", <<>>), FunctionCall("nop", <<>>)}
    \cup {LetExpr("b", Value(x), FunctionCall("dyn", <<>>)) : x \in Vals}
    \cup {FunctionCall("sum", <<FunctionCall("sum", <<Value(x), Value(y)>>), Value(x)>>) :
            x \in Vals, y \in Vals}
    \cup {FunctionCall("sum", <<b, FunctionCall("dyn", <<>>)>>),
          FunctionCall("sum", <<FunctionCall("dyn", <<>>), b>>)}

\* what the host evaluates on a Context none of its calls has raised on
Exprs ==
    Arithmetic \cup Comparisons \cup Conditionals \cup Lets \cup Calls
    \cup Lambdas \cup Collisions

\* what the host evaluates on a Context after one of its calls raised
Probes ==
    {a, b, a_plus_b,
     LetExpr("a", Value(1), a), LetExpr("b", Value(1), a),
     FunctionCall("sum", <<Value(1), Value(2)>>),
     FunctionCall("tri", <<Value(1)>>),
     FunctionCall("dyn", <<>>),
     FunctionCall("dup", <<Value(1), Value(2)>>),
     Lam2(90, a_plus_b, 1, 2), LamRec(90, 1), LamApp(90, 1)}

Functions ==
    {fn_sum, fn_sum_again, fn_sum1, fn_fst, fn_snd, fn_tri, fn_dyn, fn_dup, fn_app,
     fn_enc, lam_enc.as_fn, fn_bad}
    \cup {l.as_fn : l \in Lambdas}
    \cup {c.body.as_fn : c \in {c \in Collisions : c.body.tag = "LambdaExpr"}}
    \cup {Lam2(90, a_plus_b, 1, 2).as_fn, LamRec(90, 1).as_fn, LamApp(90, 1).as_fn}

FnIds == {f.id : f \in Functions}

(***************************************************************************)
(* Program.run, one statement of its loop at a step, and the host.         *)
(***************************************************************************)
HostRaise(e, node) ==
    /\ pc' = "idle"
    /\ result' = [kind |-> "error", err |-> e, node |-> node, traceback |-> <<>>]
    /\ errors' = errors + 1

Program_run ==
    /\ pc = "run"
    /\ IF ip > Len(statements)
       THEN /\ pc' = "idle"
            /\ UNCHANGED <<stack_frames, ip, result, errors>>
       ELSE LET statement == statements[ip]
                ty == statement.tag
            IN  IF ty = "Function"
                THEN LET r == push_function(stack_frames, statement) IN
                     IF r.err # "ok"
                     THEN /\ HostRaise(r.err, statement)
                          /\ UNCHANGED <<stack_frames, ip>>
                     ELSE /\ stack_frames' = r.frames
                          /\ ip' = ip + 1
                          /\ UNCHANGED <<pc, result, errors>>
                ELSE IF ty = "Expr"
                THEN \* AST.eval
                     /\ HostRaise("Unimplemented", statement)
                     /\ UNCHANGED <<stack_frames, ip>>
                ELSE /\ HostRaise("MalformedProgram", statement)
                     /\ UNCHANGED <<stack_frames, ip>>
    /\ UNCHANGED <<argv, statements, ctl, kont, expr, last_ret, last>>

\* the host calls e.eval(program.context)
Host_eval(e) ==
    /\ pc = "idle"
    /\ errors <= MaxErrors
    /\ e \in (IF errors = 0 THEN Exprs ELSE Probes)
    /\ pc' = "eval"
    /\ expr' = e
    /\ ctl' = Eval(e)
    /\ result' = NoResult
    /\ last_ret' = NoRet
    /\ UNCHANGED <<stack_frames, argv, statements, ip, kont, errors, last>>

\* the call returns to the host
Host_return ==
    /\ pc = "eval" /\ ctl.op = "ret" /\ kont = <<>>
    /\ pc' = "idle"
    /\ ctl' = Idle
    /\ result' = [kind |-> "value", value |-> ctl.val]
    /\ UNCHANGED <<stack_frames, argv, statements, ip, kont, expr, errors,
                   last_ret, last>>

Init ==
    /\ stack_frames = ContextInit
    /\ argv = [i \in FnIds |-> None]
    /\ statements \in Programs
    /\ ip = 1
    /\ pc = "run"
    /\ ctl = Idle
    /\ kont = <<>>
    /\ expr = NoValue
    /\ result = NoResult
    /\ errors = 0
    /\ last_ret = NoRet
    /\ last = [op |-> "none"]

Next ==
    \/ Program_run
    \/ \E e \in Exprs \cup Probes : Host_eval(e)
    \/ Host_return
    \/ Value_eval
    \/ Var_eval
    \/ AdditiveExpr_eval
    \/ AdditiveExpr_rhs
    \/ AdditiveExpr_ret
    \/ ComparisonExpr_eval
    \/ ComparisonExpr_rhs
    \/ ComparisonExpr_ret
    \/ ConditionExpr_eval
    \/ ConditionExpr_ret
    \/ IfExpr_eval
    \/ IfExpr_branch
    \/ IfExpr_ret
    \/ LambdaExpr_eval
    \/ LambdaExpr_ret
    \/ LetExpr_eval
    \/ LetExpr_bind
    \/ LetExpr_ret
    \/ FunctionCall_eval
    \/ FunctionCall_arg
    \/ FunctionCall_set_args
    \/ Function_eval
    \/ Function_ret

Spec == Init /\ [][Next]_vars


(***************************************************************************)
(* SpecCtx: the host calls the methods of one Context directly.            *)
(***************************************************************************)
CtxNames == {"a"}
CtxVals == {1, MaxVal}
CtxFns == {fn_sum, fn_sum_again, fn_sum1}
CtxKeys == {<<"sum", 1>>, <<"sum", 2>>, <<"sum", 0>>, <<"nop", 1>>}

CtxUnchanged == UNCHANGED <<argv, statements, ip, pc, ctl, kont, expr, result,
                            errors, last_ret>>

Ctx_push_stack_frame ==
    /\ pc = "ctx"
    /\ Len(stack_frames) < MaxFrames
    /\ stack_frames' = push_stack_frame(stack_frames)
    /\ last' = [op |-> "push_stack_frame", err |-> "ok"]
    /\ CtxUnchanged

Ctx_pop_stack_frame ==
    /\ pc = "ctx"
    /\ LET r == pop_stack_frame(stack_frames) IN
       /\ stack_frames' = r.frames
       /\ last' = [op |-> "pop_stack_frame", err |-> r.err]
    /\ CtxUnchanged

Ctx_push_var(name, value) ==
    /\ pc = "ctx"
    /\ LET r == push_var(stack_frames, name, value) IN
       /\ stack_frames' = r.frames
       /\ last' = [op |-> "push_var", key |-> name, value |-> value, err |-> r.err]
    /\ CtxUnchanged

Ctx_pop_var(name) ==
    /\ pc = "ctx"
    /\ LET r == pop_var(stack_frames, name) IN
       /\ stack_frames' = r.frames
       /\ last' = [op |-> "pop_var", key |-> name, err |-> r.err]
    /\ CtxUnchanged

Ctx_push_function(fn) ==
    /\ pc = "ctx"
    /\ LET r == push_function(stack_frames, fn) IN
       /\ stack_frames' = r.frames
       /\ last' = [op |-> "push_function", key |-> FnKey(fn), value |-> fn,
                   err |-> r.err]
    /\ CtxUnchanged

Ctx_pop_function(fn) ==
    /\ pc = "ctx"
    /\ LET r == pop_function(stack_frames, fn) IN
       /\ stack_frames' = r.frames
       /\ last' = [op |-> "pop_function", key |-> FnKey(fn), err |-> r.err]
    /\ CtxUnchanged

Ctx_get_var(name) ==
    /\ pc = "ctx"
    /\ LET r == get_var(stack_frames, name) IN
       last' = [op |-> "get_var", key |-> name, value |-> r.value, err |-> r.err]
    /\ UNCHANGED stack_frames
    /\ CtxUnchanged

Ctx_get_function(key) ==
    /\ pc = "ctx"
    /\ LET r == get_function(stack_frames, key[1], key[2]) IN
       last' = [op |-> "get_function", key |-> key, value |-> r.value,
                err |-> r.err]
    /\ UNCHANGED stack_frames
    /\ CtxUnchanged

InitCtx ==
    /\ stack_frames = ContextInit
    /\ argv = [i \in FnIds |-> None]
    /\ statements = <<>>
    /\ ip = 1
    /\ pc = "ctx"
    /\ ctl = Idle
    /\ kont = <<>>
    /\ expr = NoValue
    /\ result = NoResult
    /\ errors = 0
    /\ last_ret = NoRet
    /\ last = [op |-> "none", err |-> "ok"]

NextCtx ==
    \/ Ctx_push_stack_frame
    \/ Ctx_pop_stack_frame
    \/ \E n \in CtxNames, v \in CtxVals : Ctx_push_var(n, v)
    \/ \E n \in CtxNames : Ctx_pop_var(n)
    \/ \E fn \in CtxFns : Ctx_push_function(fn)
    \/ \E fn \in CtxFns : Ctx_pop_function(fn)
    \/ \E n \in Names : Ctx_get_var(n)
    \/ \E key \in CtxKeys : Ctx_get_function(key)

SpecCtx == InitCtx /\ [][NextCtx]_vars


(***************************************************************************)
(* Properties.                                                             *)
(***************************************************************************)
Max(S) == CHOOSE i \in S : \A j \in S : j <= i

\* the frames of a Context that bind the variable, or register the function
VarHolders(frames, name) ==
    {i \in 1..Len(frames) : name \in DOMAIN frames[i].vars}
FnHolders(frames, key) ==
    {i \in 1..Len(frames) : key \in DOMAIN frames[i].fns}

\* the pending Function.eval calls, by their place in kont
Invocations == {i \in 1..Len(kont) : kont[i].k = "Function"}

\* C1 (SpecCtx): a push_var or push_function of a key the current frame
\* already holds raises Shadowing and leaves every frame as it was, so the
\* frame still maps the key to the first binding.
C1_ShadowingKeepsFirst ==
    [][(/\ HasFrame(stack_frames)
        /\ \/ /\ last'.op = "push_var"
              /\ last'.key \in DOMAIN current_stack_frame(stack_frames).vars
           \/ /\ last'.op = "push_function"
              /\ last'.key \in DOMAIN current_stack_frame(stack_frames).fns)
       => (last'.err = "Shadowing" /\ stack_frames' = stack_frames)]_vars

\* a second push_var of a bound name, with another value, was refused and the
\* first value is still there
C1_Witness ==
    /\ last.op = "push_var"
    /\ last.err = "Shadowing"
    /\ current_stack_frame(stack_frames).vars[last.key] # last.value

\* C2 (SpecCtx): get_var returns the binding of the topmost frame that holds
\* the name, and raises UnboundVariable exactly when no frame holds it.
C2_GetVarTopmost ==
    (last.op = "get_var" /\ HasFrame(stack_frames)) =>
        LET holders == VarHolders(stack_frames, last.key) IN
        IF holders = {}
        THEN last.err = "UnboundVariable"
        ELSE /\ last.err = "ok"
             /\ last.value = stack_frames[Max(holders)].vars[last.key]

\* a lookup that succeeded on a name the current frame does not hold
C2_Witness ==
    /\ last.op = "get_var"
    /\ last.err = "ok"
    /\ Len(stack_frames) > 1
    /\ last.key \notin DOMAIN current_stack_frame(stack_frames).vars

\* C3: when a FunctionCall returns a result, the Context has the frames it
\* had when the call was entered, each with the same contents.
C3_CallRestoresContext ==
    last_ret.kind = "FunctionCall" => last_ret.after = last_ret.before

\* a recursive call of tri has returned into a pending invocation of tri
C3_Witness ==
    /\ last_ret.kind = "FunctionCall"
    /\ last_ret.node.name = "tri"
    /\ Len(last_ret.before) > 1
    /\ \E i \in Invocations : kont[i].fn = fn_tri

\* C4: after an error has left a LetExpr.eval whose body was being evaluated,
\* the let's name is not bound in the frame the let bound it in.
C4_LetUnbindsOnError ==
    result.kind = "error" =>
        \A i \in DOMAIN result.traceback :
            LET f == result.traceback[i] IN
            f.k = "LetBody" => f.node.name \notin DOMAIN stack_frames[f.depth].vars

\* C5: while the body of a non-lambda Function is being evaluated, the
\* Function's argv holds the arguments of that invocation.
C5_OuterArgsKept ==
    \A i \in Invocations :
        ~kont[i].fn.is_lambda => argv[kont[i].fn.id] = Some(kont[i - 1].argv)

\* C6: Program.run raises MalformedProgram only for a statement that is
\* neither a Function nor an expression.
C6_MalformedOnlyForNonAST ==
    (result.kind = "error" /\ result.err = "MalformedProgram") =>
        result.node.tag \notin ExprTags \cup {"Function", "Expr"}

\* C7: a FunctionCall whose (name, argn) no frame registers raises
\* UndefinedFunction at its first step: no argument is evaluated and neither
\* the Context nor any Function changes.
C7_UndefinedFunction ==
    [][(/\ Evaluating("FunctionCall")
        /\ FnHolders(stack_frames, <<ctl.node.name, Len(ctl.node.argv)>>) = {})
       => (/\ pc' = "idle"
           /\ result'.kind = "error"
           /\ result'.err = "UndefinedFunction"
           /\ result'.node = ctl.node
           /\ stack_frames' = stack_frames
           /\ argv' = argv)]_vars

\* sum called with one argument where only sum of two parameters is registered
C7_Witness ==
    /\ result.kind = "error"
    /\ result.err = "UndefinedFunction"
    /\ result.node.name = "sum"
    /\ Len(result.node.argv) = 1
    /\ FnHolders(stack_frames, <<"sum", 2>>) # {}

\* C8: an AdditiveExpr over two numbers yields their sum under ADDITION and
\* their difference under SUBTRACTION.
C8_AdditiveAppliesOperator ==
    (/\ pc = "idle"
     /\ result.kind = "value"
     /\ expr.tag = "AdditiveExpr"
     /\ expr.lhs.tag = "Value"
     /\ expr.rhs.tag = "Value") =>
        result.value = IF expr.operator = ADDITION
                       THEN expr.lhs.value + expr.rhs.value
                       ELSE expr.lhs.value - expr.rhs.value

\* A lookup of a parameter in the body of the innermost pending invocation
\* returns the argument at the parameter's position.
C9_ParamLookup ==
    (/\ Evaluating("Var")
     /\ Invocations # {})
    => LET i == Max(Invocations)
           params == kont[i].fn.args
       IN  \A j \in 1..Len(params) :
               params[j] = ctl.node.name => ctl' = Ret(kont[i - 1].argv[j])

\* sum, or a lambda of body a + b, called with two numbers returns their sum
C9_SumOfTwo ==
    (pc = "idle" /\ result.kind = "value") =>
        /\ (/\ expr.tag = "FunctionCall"
            /\ expr.name = "sum"
            /\ Len(expr.argv) = 2
            /\ expr.argv[1].tag = "Value"
            /\ expr.argv[2].tag = "Value")
           => result.value = expr.argv[1].value + expr.argv[2].value
        /\ (/\ expr.tag = "LambdaExpr"
            /\ expr.value = a_plus_b
            /\ expr.body.tag = "FunctionCall"
            /\ expr.body.name = expr.name)
           => result.value = expr.body.argv[1].value + expr.body.argv[2].value

\* C9: parameters are bound by position: every step looks a parameter up
\* as C9_ParamLookup says, and every state satisfies C9_SumOfTwo.
C9_PositionalBinding == [][C9_ParamLookup]_vars /\ []C9_SumOfTwo

\* a lambda of body b, called with two different numbers, returned the second
C9_Witness ==
    /\ pc = "idle"
    /\ result.kind = "value"
    /\ expr.tag = "LambdaExpr"
    /\ expr.value = b
    /\ expr.body.argv[1].value # expr.body.argv[2].value
    /\ result.value = expr.body.argv[2].value

\* LetExpr.eval starts by evaluating value_expr, the Context untouched
C10_ValueFirst ==
    Evaluating("LetExpr") =>
        (stack_frames' = stack_frames /\ ctl' = Eval(ctl.node.value))

\* with the value in hand it binds the name, unbound until then, and
\* evaluates the body
C10_Bind ==
    (/\ Returning("LetVal")
     /\ Top.node.name \notin DOMAIN current_stack_frame(stack_frames).vars)
    => /\ ctl' = Eval(Top.node.body)
       /\ stack_frames' =
            SetCurrent(stack_frames,
                [current_stack_frame(stack_frames) EXCEPT
                    !.vars = Put(@, Top.node.name, ctl.val)])

\* the lets whose body is being evaluated with no frame pushed since
LetsInScope ==
    {i \in 1..Len(kont) :
        /\ kont[i].k = "LetBody"
        /\ \A j \in Invocations : j > i => kont[j].fn.is_lambda}

\* in the body the name resolves to the value of value_expr
C10_Lookup ==
    Evaluating("Var") =>
        \A i \in LetsInScope :
            kont[i].node.name = ctl.node.name => ctl' = Ret(kont[i].val)

\* on return the Context is as on entry, and `let n = v in n` yields v
C10_Returned ==
    last_ret.kind = "LetExpr" =>
        /\ last_ret.after = last_ret.before
        /\ last_ret.node.body = Var(last_ret.node.name)
           => last_ret.value = last_ret.bound[1]

\* C10: every step of a LetExpr.eval is as C10_ValueFirst, C10_Bind and
\* C10_Lookup say, and every LetExpr.eval that returned satisfies C10_Returned.
C10_LetExpr ==
    [][C10_ValueFirst /\ C10_Bind /\ C10_Lookup]_vars /\ []C10_Returned

\* `let a = (let a = x in a) in a` returned x: the inner let had unbound a
\* before the outer one bound it
C10_Witness ==
    /\ pc = "idle"
    /\ result.kind = "value"
    /\ expr.tag = "LetExpr"
    /\ expr.value.tag = "LetExpr"
    /\ expr.value.name = expr.name
    /\ expr.body = Var(expr.name)
    /\ result.value = expr.value.value.value
    /\ last_ret.after = last_ret.before

\* the branch a pending IfExpr.eval takes, its condition evaluated
Taken(f) == IF f.condition THEN f.node.true_expr ELSE f.node.false_expr

\* the pending eval at place i of kont has called the eval of this node and
\* of no other
OnlyEvaluates(i, node) ==
    IF i < Len(kont) THEN kont[i + 1].node = node
    ELSE ctl.op = "eval" => ctl.node = node

\* an IfExpr.eval calls condition.eval first, with its value calls the eval
\* of the branch that value selects, and returns what the branch returned;
\* it does not touch the Context itself; a ConditionExpr is true exactly
\* when its inner value is not 0
C11_Steps ==
    /\ Evaluating("IfExpr") =>
        (ctl' = Eval(ctl.node.condition) /\ stack_frames' = stack_frames)
    /\ Returning("If") =>
        /\ ctl' = Eval(IF ctl.val THEN Top.node.true_expr ELSE Top.node.false_expr)
        /\ stack_frames' = stack_frames
    /\ Returning("IfBranch") =>
        (ctl' = Ret(ctl.val) /\ kont' = Pop(kont) /\ stack_frames' = stack_frames)
    /\ Returning("Cond") => ctl' = Ret(ctl.val # 0)

\* whatever a pending IfExpr.eval is evaluating is its condition, and once
\* that has returned, the branch taken
C11_OneBranch ==
    \A i \in 1..Len(kont) :
        /\ kont[i].k = "If" => OnlyEvaluates(i, kont[i].node.condition)
        /\ kont[i].k = "IfBranch" => OnlyEvaluates(i, Taken(kont[i]))

\* an IfExpr over a literal condition, whose selected branch is a literal,
\* returns that literal and leaves the fresh Context with its one frame and
\* no variable, whatever the other branch is
C11_Untaken ==
    (/\ pc = "idle"
     /\ errors = 0
     /\ expr.tag = "IfExpr"
     /\ expr.condition.tag = "ConditionExpr"
     /\ expr.condition.expr.tag = "Value") =>
        LET taken == IF expr.condition.expr.value # 0
                     THEN expr.true_expr ELSE expr.false_expr
        IN  taken.tag = "Value" =>
                /\ result = [kind |-> "value", value |-> taken.value]
                /\ Len(stack_frames) = 1
                /\ DOMAIN stack_frames[1].vars = {}

\* C11: IfExpr.eval evaluates the condition once and then exactly the branch
\* it selects (true_expr iff the condition holds; for a ConditionExpr, iff
\* the inner number is not 0); the other branch is never evaluated, so
\* neither its error nor its effect on the Context occurs.
C11_IfExpr == [][C11_Steps]_vars /\ [](C11_OneBranch /\ C11_Untaken)

\* an IfExpr whose condition held returned its true branch; its false
\* branch, the failing call dup(1, 2), would have left a frame behind
C11_Witness ==
    /\ pc = "idle"
    /\ result.kind = "value"
    /\ expr.tag = "IfExpr"
    /\ expr.false_expr.tag = "FunctionCall"
    /\ expr.false_expr.name = "dup"
    /\ result.value = expr.true_expr.value
    /\ Len(stack_frames) = 1

\* the comparators that hold of x and y, by which of x > y, x = y, x < y is
\* the case
Holding(x, y) ==
    IF x > y THEN {GT, GTE, NEQ}
    ELSE IF x = y THEN {GTE, LTE, EQ}
    ELSE {LT, LTE, NEQ}

\* a ComparisonExpr.eval evaluates lhs, then rhs, and returns whether its
\* comparator holds of the two numbers; none of its steps changes the
\* Context or a Function
C12_Steps ==
    /\ Evaluating("ComparisonExpr") =>
        (ctl' = Eval(ctl.node.lhs) /\ stack_frames' = stack_frames /\ argv' = argv)
    /\ Returning("CmpL") =>
        (ctl' = Eval(Top.node.rhs) /\ stack_frames' = stack_frames /\ argv' = argv)
    /\ Returning("CmpR") =>
        /\ ctl' = Ret(Top.node.operator \in Holding(Top.lhs_value, ctl.val))
        /\ kont' = Pop(kont)
        /\ stack_frames' = stack_frames
        /\ argv' = argv

\* a ComparisonExpr of two literals, or of a let-bound variable and 1,
\* evaluated on a fresh Context returns the comparison of the two numbers
\* and leaves the Context with its one frame and no variable
C12_Result ==
    (pc = "idle" /\ errors = 0) =>
        /\ (/\ expr.tag = "ComparisonExpr"
            /\ expr.lhs.tag = "Value"
            /\ expr.rhs.tag = "Value") =>
                /\ result = [kind |-> "value",
                             value |-> expr.operator \in
                                        Holding(expr.lhs.value, expr.rhs.value)]
                /\ Len(stack_frames) = 1
                /\ DOMAIN stack_frames[1].vars = {}
        /\ (/\ expr.tag = "LetExpr"
            /\ expr.value.tag = "Value"
            /\ expr.body.tag = "ComparisonExpr"
            /\ expr.body.lhs = Var(expr.name)
            /\ expr.body.rhs.tag = "Value") =>
                /\ result = [kind |-> "value",
                             value |-> expr.body.operator \in
                                        Holding(expr.value.value,
                                                expr.body.rhs.value)]
                /\ Len(stack_frames) = 1
                /\ DOMAIN stack_frames[1].vars = {}

\* C12: for each comparator of GT, GTE, LT, LTE, EQ, NEQ, a ComparisonExpr
\* whose operands evaluate to x and y returns x > y, x >= y, x < y, x <= y,
\* x = y, x /= y respectively, and does not change the Context.  Every step
\* of a ComparisonExpr.eval changes kont.
C12_ComparisonExpr == [][C12_Steps]_kont /\ []C12_Result

\* GTE of two equal numbers returned true
C12_Witness ==
    /\ pc = "idle"
    /\ expr.tag = "ComparisonExpr"
    /\ expr.operator = GTE
    /\ expr.lhs.value = expr.rhs.value
    /\ result = [kind |-> "value", value |-> TRUE]

\* the pending LambdaExpr.eval calls, by their place in kont
PendingLambdas == {i \in 1..Len(kont) : kont[i].k = "Lambda"}

\* LambdaExpr.eval registers as_fn in the current frame and then evaluates
\* usage_expr; a FunctionCall of the key of a pending LambdaExpr finds a
\* function; on return the key is gone from the frame it was registered in
C13_Steps ==
    /\ (/\ Evaluating("LambdaExpr")
        /\ FnKey(ctl.node.as_fn) \notin DOMAIN current_stack_frame(stack_frames).fns)
       => /\ ctl' = Eval(ctl.node.body)
          /\ stack_frames' =
               SetCurrent(stack_frames,
                   [current_stack_frame(stack_frames) EXCEPT
                       !.fns = Put(@, FnKey(ctl.node.as_fn), ctl.node.as_fn)])
    /\ (/\ Evaluating("FunctionCall")
        /\ \E i \in PendingLambdas :
              FnKey(kont[i].node.as_fn) = <<ctl.node.name, Len(ctl.node.argv)>>)
       => /\ pc' = "eval"
          /\ FnKey(kont'[Len(kont')].fn) = <<ctl.node.name, Len(ctl.node.argv)>>
    /\ (Returning("Lambda") /\ pc' = "eval")
       => /\ ctl' = Ret(ctl.val)
          /\ Len(stack_frames') = Len(Top.saved)
          /\ FnKey(Top.node.as_fn) \notin
                DOMAIN stack_frames'[Len(Top.saved)].fns

\* while usage_expr is being evaluated, the frame the lambda was registered
\* in is on the stack and maps the key to the lambda's function, and a lookup
\* of the key from the current frame succeeds
C13_Registered ==
    \A i \in PendingLambdas :
        LET fn == kont[i].node.as_fn
            d == Len(kont[i].saved)
        IN  /\ Len(stack_frames) >= d
            /\ FnKey(fn) \in DOMAIN stack_frames[d].fns
            /\ stack_frames[d].fns[FnKey(fn)] = fn
            /\ get_function(stack_frames, fn.name, Len(fn.args)).err = "ok"

\* a LambdaExpr.eval that returned left the Context as it found it, its key
\* not registered in the frame that was current
C13_Unregistered ==
    last_ret.kind = "LambdaExpr" =>
        /\ last_ret.after = last_ret.before
        /\ FnKey(last_ret.node.as_fn) \notin
              DOMAIN last_ret.after[Len(last_ret.before)].fns

\* C13: a LambdaExpr registers (name, arity) in the current frame before
\* usage_expr is evaluated; every FunctionCall evaluated during usage_expr
\* can resolve it, from the lambda's own body and from frames pushed by
\* calls too; after a normal return it is no longer registered in that frame.
C13_LambdaScope ==
    [][C13_Steps]_vars /\ [](C13_Registered /\ C13_Unregistered)

\* a lambda lam whose usage_expr calls app, whose body calls lam from the
\* frame app pushed: the call returned the argument, and lam is gone
C13_Witness ==
    /\ pc = "idle"
    /\ expr.tag = "LambdaExpr"
    /\ expr.body.name = "app"
    /\ result = [kind |-> "value", value |-> expr.body.argv[1].value]
    /\ last_ret.kind = "LambdaExpr"
    /\ FnKey(expr.as_fn) \notin DOMAIN stack_frames[1].fns

\* no name occurs twice among the parameters
Distinct(args) ==
    \A i, j \in 1..Len(args) : i # j => args[i] # args[j]

\* the variables a frame holds after push_args into it
Bound(sf_vars, args, values) ==
    [n \in DOMAIN sf_vars \cup {args[j] : j \in 1..Len(args)} |->
        IF \E j \in 1..Len(args) : args[j] = n
        THEN values[CHOOSE j \in 1..Len(args) : args[j] = n]
        ELSE sf_vars[n]]

\* Function.eval of an armed lambda pushes no frame: it raises Shadowing if
\* the current frame binds one of its parameters and otherwise binds them
\* there; Function.eval of an armed non-lambda function pushes one frame onto
\* the caller's and binds its parameters in it, whatever the caller's bind
C14_Steps ==
    (pc = "eval" /\ ctl.op = "fn_eval" /\ argv[Top.fn.id] # None) =>
        LET fn == Top.fn
            sf == current_stack_frame(stack_frames)
            values == argv[fn.id][1]
            n == Len(stack_frames)
        IN  IF fn.is_lambda
            THEN /\ Len(stack_frames') = n
                 /\ (\E j \in 1..Len(fn.args) : fn.args[j] \in DOMAIN sf.vars)
                    => (/\ pc' = "idle"
                        /\ result'.kind = "error"
                        /\ result'.err = "Shadowing")
                 /\ (/\ Distinct(fn.args)
                     /\ \A j \in 1..Len(fn.args) : fn.args[j] \notin DOMAIN sf.vars)
                    => (/\ pc' = "eval"
                        /\ stack_frames' =
                             SetCurrent(stack_frames,
                                 [sf EXCEPT !.vars = Bound(@, fn.args, values)]))
            ELSE /\ Len(stack_frames') = n + 1
                 /\ SubSeq(stack_frames', 1, n) = stack_frames
                 /\ Distinct(fn.args)
                    => (/\ pc' = "eval"
                        /\ stack_frames'[n + 1] =
                             [vars |-> Bound(EmptyMap, fn.args, values),
                              fns |-> EmptyMap])

\* a lambda of parameter a called in the body of a let of a, in the body of
\* a function of parameter a, or in its own body raises Shadowing (a lambda
\* rec that was registered, in its call and not in its registration); the
\* functions fst and tri of parameter a, called in the body of a let of a
\* and in tri's own body, return
C14_Collisions ==
    pc = "idle" =>
        /\ (/\ expr.tag = "LetExpr"
            /\ expr.body.tag = "LambdaExpr"
            /\ expr.body.args = <<expr.name>>)
           => (/\ result.kind = "error"
               /\ result.err = "Shadowing"
               /\ result.node = expr.body.as_fn)
        /\ (/\ expr.tag = "FunctionCall"
            /\ expr.name = "enc"
            /\ FnHolders(stack_frames, <<"enc", 1>>) # {})
           => (/\ result.kind = "error"
               /\ result.err = "Shadowing"
               /\ result.node = lam_enc.as_fn)
        /\ (/\ expr.tag = "LambdaExpr"
            /\ expr.name = "rec"
            /\ expr.body.argv[1].value # 0)
           => (/\ result.kind = "error"
               /\ result.err = "Shadowing"
               /\ result.traceback # <<>> => result.node = expr.as_fn)
        /\ (/\ expr.tag = "LetExpr"
            /\ expr.body.tag = "FunctionCall"
            /\ expr.body.name = "fst"
            /\ expr.name = fn_fst.args[1]
            /\ FnHolders(stack_frames, <<"fst", 2>>) # {})
           => result = [kind |-> "value", value |-> expr.body.argv[1].value]
        /\ (/\ expr.tag = "FunctionCall"
            /\ expr.name = "tri"
            /\ FnHolders(stack_frames, <<"tri", 1>>) # {})
           => result.kind = "value"

\* C14: a lambda call pushes no frame and binds its parameters into the
\* caller's current frame, a non-lambda call binds them into a frame it
\* pushes: a lambda whose parameter is bound in the caller's current frame
\* (by a let, by an enclosing function's parameter, by an active invocation
\* of the same lambda) fails with Shadowing where a non-lambda function of
\* that parameter succeeds.
C14_LambdaSharesFrame == [][C14_Steps]_vars /\ []C14_Collisions

\* enc(x) failed with Shadowing in the lambda its body calls: the frame enc
\* pushed is the current one and the lambda pushed none
C14_Witness ==
    /\ pc = "idle"
    /\ expr.tag = "FunctionCall"
    /\ expr.name = "enc"
    /\ result.kind = "error"
    /\ result.err = "Shadowing"
    /\ result.node.is_lambda
    /\ Len(stack_frames) = 2

\* every function a frame registers is registered under its own name and
\* its own number of parameters
C15_KeyedByArity ==
    \A i \in 1..Len(stack_frames) :
        \A key \in DOMAIN stack_frames[i].fns :
            LET fn == stack_frames[i].fns[key] IN key = <<fn.name, Len(fn.args)>>

\* the Function a pending FunctionCall.eval has looked up declares as many
\* parameters as the call has argument expressions; set_args is called with
\* that many values, and no call has raised ArityMismatch
C15_SameArity ==
    /\ \A i \in 1..Len(kont) :
          kont[i].k = "Call" =>
              /\ Len(kont[i].fn.args) = Len(kont[i].node.argv)
              /\ kont[i].fn.name = kont[i].node.name
    /\ (pc = "eval" /\ ctl.op = "set_args") => Len(Top.argv) = Len(Top.fn.args)
    /\ result.kind = "error" => result.err # "ArityMismatch"

\* set_args arms the Function and FunctionCall.eval goes on to its eval
C15_Steps ==
    (pc = "eval" /\ ctl.op = "set_args") =>
        /\ pc' = "eval"
        /\ ctl' = [op |-> "fn_eval"]
        /\ argv' = [argv EXCEPT ![Top.fn.id] = Some(Top.argv)]

\* C15: the ArityMismatch check of Function.set_args is unreachable through
\* FunctionCall.eval: in every reachable Context the Function found under
\* (name, arity) has as many parameters as the call has arguments, so
\* set_args never raises.
C15_ArityMismatchUnreachable ==
    [][C15_Steps]_vars /\ [](C15_KeyedByArity /\ C15_SameArity)

\* sum of one parameter was found and armed for a call of one argument,
\* with sum of two parameters registered beside it
C15_Witness ==
    /\ pc = "eval"
    /\ ctl.op = "fn_eval"
    /\ Top.fn = fn_sum1
    /\ argv[fn_sum1.id] = Some(Top.argv)
    /\ FnHolders(stack_frames, FnKey(fn_sum)) # {}

\* the pending FunctionCall.eval at place i of kont has not yet evaluated all
\* of its argument expressions
InArgs(f) == f.k = "Call" /\ Len(f.argv) < Len(f.node.argv)

\* FunctionCall.eval, the Function found, evaluates the first argument
\* expression; each argument value that arrives is put after the ones before
\* it and the next expression is evaluated, set_args coming after the last;
\* none of these steps changes the Context or a Function
C16_Steps ==
    /\ (Evaluating("FunctionCall") /\ pc' = "eval") =>
        /\ ctl' = IF ctl.node.argv = <<>> THEN [op |-> "set_args"]
                  ELSE Eval(ctl.node.argv[1])
        /\ stack_frames' = stack_frames
        /\ argv' = argv
    /\ Returning("Call") =>
        LET got == Len(Top.argv) + 1 IN
        /\ kont'[Len(kont')].argv = Append(Top.argv, ctl.val)
        /\ ctl' = IF got = Len(Top.node.argv) THEN [op |-> "set_args"]
                  ELSE Eval(Top.node.argv[got + 1])
        /\ stack_frames' = stack_frames
        /\ argv' = argv

\* when FunctionCall.eval starts the evaluation of an argument, has its value
\* in hand, arms the Function or enters it, the Context is the caller's: the
\* one the call was entered with
C16_CallerContext ==
    (pc = "eval" /\ kont # <<>> /\ Top.k = "Call") => stack_frames = Top.saved

\* after an error raised in the evaluation of an argument, the Context has
\* as many frames as when the call was entered
C16_ArgErrorKeepsFrames ==
    result.kind = "error" =>
        \A i \in DOMAIN result.traceback :
            InArgs(result.traceback[i]) =>
                Len(stack_frames) = Len(result.traceback[i].saved)

\* C16: FunctionCall.eval evaluates every argument expression, left to
\* right, in the caller's context, before the Function is armed, the
\* callee's frame pushed or a parameter bound; an error in argument i
\* occurs before argument i+1 is evaluated and leaves the frame count
\* unchanged.
C16_ArgumentsFirst ==
    [][C16_Steps]_vars /\ [](C16_CallerContext /\ C16_ArgErrorKeepsFrames)

\* the pending Function.eval calls of functions that are no lambdas
FramedInvocations == {i \in Invocations : ~kont[i].fn.is_lambda}

\* the frame stack grows only by the one frame a non-lambda Function.eval
\* pushes, and shrinks only by the one frame a returning non-lambda
\* Function.eval pops, which is the frame that eval pushed; the frames below
\* stay as they are
C17_Steps ==
    LET n == Len(stack_frames) IN
    /\ Len(stack_frames') > n =>
        /\ pc = "eval" /\ ctl.op = "fn_eval"
        /\ ~Top.fn.is_lambda
        /\ Len(stack_frames') = n + 1
        /\ SubSeq(stack_frames', 1, n) = stack_frames
    /\ Len(stack_frames') < n =>
        /\ Returning("Function")
        /\ ~Top.fn.is_lambda
        /\ Top.depth = n
        /\ stack_frames' = SubSeq(stack_frames, 1, n - 1)

\* the base frame is there; the frames the pending non-lambda calls pushed
\* are on the stack above it in the order of the calls, the innermost call's
\* frame being the current one
C17_Stack ==
    /\ Len(stack_frames) >= 1
    /\ \A i \in FramedInvocations :
          /\ kont[i].depth >= 2
          /\ kont[i].depth <= Len(stack_frames)
          /\ \A j \in FramedInvocations : i < j => kont[i].depth < kont[j].depth
    /\ FramedInvocations # {} =>
          kont[Max(FramedInvocations)].depth = Len(stack_frames)

\* C17: evaluating AST nodes or running a Program on a fresh Context, the
\* frame stack is never empty and frame 0 is never popped; frames above it
\* are created only by non-lambda calls and removed in LIFO order: the frame
\* popped when a call returns is the frame that call pushed.
C17_FrameStack == [][C17_Steps]_vars /\ []C17_Stack

\* tri(0) has returned into tri(1) called by tri(2): its frame, the fourth,
\* is popped and the frames of the two pending calls are on the base frame
C17_Witness ==
    /\ last_ret.kind = "FunctionCall"
    /\ Len(last_ret.before) = 3
    /\ Len(stack_frames) = 3
    /\ Cardinality(FramedInvocations) = 2

\* when Function.eval is entered the Function's argv holds the values of
\* the call that enters it, and no assertion has failed
C18_Armed ==
    /\ (pc = "eval" /\ ctl.op = "fn_eval") => argv[Top.fn.id] = Some(Top.argv)
    /\ result.kind = "error" => result.err # "InternalInvariant"

\* a call that returns leaves its Function's argv None, and touches the argv
\* of no other Function
C18_Steps ==
    (Returning("Function") /\ pc' = "eval") =>
        argv' = [argv EXCEPT ![Top.fn.id] = None]

\* C18: every call made through FunctionCall.eval, recursive calls and calls
\* in argument positions too, finds its Function Armed when Function.eval is
\* entered (the assertion argv != None never fails), and the Function's
\* pending-argument slot is cleared when the call returns normally.
C18_CallProtocol == [][C18_Steps]_vars /\ []C18_Armed

\* sum(sum(x, y), x): the call in the argument position has returned into
\* the pending call of the same Function and has left it Unbound
C18_Witness ==
    /\ Returning("Call")
    /\ Top.fn = fn_sum
    /\ last_ret.kind = "FunctionCall"
    /\ last_ret.node.name = "sum"
    /\ argv[fn_sum.id] = None

\* the innermost pending invocation is of a non-lambda Function whose argv
\* no longer holds that invocation's arguments: a nested call of the same
\* Function has been armed, or has returned and cleared the slot
Clobbered ==
    /\ Invocations # {}
    /\ LET i == Max(Invocations) IN
       /\ ~kont[i].fn.is_lambda
       /\ argv[kont[i].fn.id] # Some(kont[i - 1].argv)

\* in the body of such an invocation a parameter still evaluates to the
\* invocation's own argument, and the invocation returns normally, popping
\* the frame it pushed
C19_Steps ==
    LET i == Max(Invocations) IN
    /\ (Evaluating("Var") /\ Clobbered) =>
        \A j \in 1..Len(kont[i].fn.args) :
            kont[i].fn.args[j] = ctl.node.name => ctl' = Ret(kont[i - 1].argv[j])
    /\ (Returning("Function") /\ Clobbered) =>
        /\ pc' = "eval"
        /\ ctl' = Ret(ctl.val)
        /\ stack_frames' = kont[i - 1].saved

\* tri(x), with tri(a) = if a then tri(a + -1) + a else 0 registered,
\* returns 0 + 1 + ... + x
C19_Triangle ==
    (/\ pc = "idle"
     /\ expr.tag = "FunctionCall"
     /\ expr.name = "tri"
     /\ FnHolders(stack_frames, <<"tri", 1>>) # {}) =>
        LET x == expr.argv[1].value IN
        /\ result = [kind |-> "value", value |-> (x * (x + 1)) \div 2]
        /\ last_ret.after = last_ret.before

\* C19: recursion through one shared non-lambda Function object is
\* observably correct: after a nested recursive call with other arguments
\* has returned, every parameter lookup in the outer invocation's body
\* returns the outer invocation's argument, and the outer call returns
\* normally with its own frame popped.
C19_RecursionCorrect == [][C19_Steps]_vars /\ []C19_Triangle

\* tri of a number above 1 returned the sum down to 0: two nested calls had
\* returned into pending ones that then read their own parameter
C19_Witness ==
    /\ pc = "idle"
    /\ expr.tag = "FunctionCall"
    /\ expr.name = "tri"
    /\ expr.argv[1].value > 1
    /\ result.kind = "value"
    /\ result.value >= expr.argv[1].value + (expr.argv[1].value - 1)
    /\ Len(stack_frames) = 1

\* the calls of non-lambda Functions an error has left, by their place in
\* the stack it left: those whose body was being evaluated, and the one
\* whose Function.eval raised before the body
FailedCalls ==
    IF result.kind # "error" THEN {}
    ELSE LET tb == result.traceback IN
         {k \in DOMAIN tb :
            /\ tb[k].k = "Call"
            /\ ~tb[k].fn.is_lambda
            /\ \/ k < Len(tb) /\ tb[k + 1].k = "Function"
               \/ k = Len(tb) /\ result.node = tb[k].fn}

\* how many parameters push_args binds before it meets a name again
BoundSoFar(args) ==
    LET again == {j \in 1..Len(args) : \E i \in 1..(j - 1) : args[i] = args[j]}
    IN  IF again = {} THEN Len(args)
        ELSE (CHOOSE j \in again : \A m \in again : j <= m) - 1

\* the parameters bound so far are in the frame the failed call pushed
KeepsParams(f) ==
    LET d == Len(f.saved) + 1 IN
    \A j \in 1..BoundSoFar(f.fn.args) :
        /\ f.fn.args[j] \in DOMAIN stack_frames[d].vars
        /\ stack_frames[d].vars[f.fn.args[j]] = f.argv[j]

\* C20 as stated: when an error has left the FunctionCall.eval of a
\* non-lambda Function whose body raised, or whose parameters could not be
\* bound, the Context holds one more frame than before the call, the
\* parameters bound so far are in that frame, and the Function is Armed.
C20_OneMoreFrameArmed ==
    \A k \in FailedCalls :
        LET f == result.traceback[k] IN
        /\ Len(stack_frames) = Len(f.saved) + 1
        /\ KeepsParams(f)
        /\ argv[f.fn.id] # None

\* C20, amended: the Context holds the frame the failed call pushed and,
\* above it, one frame for each failed non-lambda call nested in its body;
\* the parameters bound so far are in the call's frame; and the Function's
\* argv holds the call's arguments unless set_args was called on the
\* Function again while the body ran (then it holds what the nested call
\* left: its arguments, or None if it returned).
C20_FailedCallNotCleanedUp ==
    \A k \in FailedCalls :
        LET tb == result.traceback
            f == tb[k]
        IN  /\ Len(stack_frames) =
                  Len(f.saved) + Cardinality({m \in FailedCalls : m >= k})
            /\ KeepsParams(f)
            /\ (k = Len(tb) \/ ~tb[k + 1].rearmed) => argv[f.fn.id] = Some(f.argv)

\* bad(2) failed in the body of the nested bad(1), after bad(0) had returned:
\* two frames are left on the base frame, and bad is not Armed
C20_Witness ==
    /\ Cardinality(FailedCalls) = 2
    /\ Len(stack_frames) = 3
    /\ result.node = b
    /\ argv[fn_bad.id] = None

====
